---- MODULE Spec2Model ----
(***************************************************************************)
(* A model of the sharded entry store of sturdyc: the shards             *)
(* (src/shard.go) and the client that routes keys to them (src/cache.go). *)
(* Time is an integer clock. A shard is a record of its three Go maps,    *)
(* each a function whose domain is the set of keys present in the map.    *)
(***************************************************************************)
EXTENDS Integers, Sequences, FiniteSets, TLC

(***************************************************************************)
(* Bounds of the model.                                                    *)
(***************************************************************************)
\* the clock runs from 0 to MaxTime
MaxTime == 3
\* the number of client calls made in one behaviour
MaxOps == 4

(***************************************************************************)
(* The arguments of New (cache.go:82) and the refresh options of Config.   *)
(***************************************************************************)
NumShards == 2
Capacity == 4
Ttl == 2
MinRefreshTime == 1
MaxRefreshTime == 2
RetryBaseDelay == 1

ShardIds == 0..(NumShards - 1)
\* shardSize := capacity / numShards
ShardSize == Capacity \div NumShards

(***************************************************************************)
(* The inputs: primary keys, aliases, values.  The empty string is a key   *)
(* like any other, and "k1" is used both as a primary key and as an alias. *)
(***************************************************************************)
Keys == {"", "k1", "k2", "k3"}
AliasNames == {"a1", "k1"}
Str == Keys \cup AliasNames
\* the zero value of T
ZeroValue == 0
Clients == {"c1", "c2", "c3"}

\* xxhash.Sum64String(key) % len(c.shards), on the strings of the model
Hash(key) == IF key \in {"k3", "a1"} THEN 1 ELSE 0

(***************************************************************************)
(* Go maps.                                                                *)
(***************************************************************************)
EmptyMap == [x \in {} |-> x]
MapDelete(m, k) == [x \in (DOMAIN m) \ {k} |-> m[x]]
MapPut(m, k, v) == [x \in (DOMAIN m) \cup {k} |-> IF x = k THEN v ELSE m[x]]
\* m[k] of a map[string]string: the zero value "" when k is absent
MapLoadString(m, k) == IF k \in DOMAIN m THEN m[k] ELSE ""
\* m[k] of a map[string][]string: nil when k is absent
MapLoadSlice(m, k) == IF k \in DOMAIN m THEN m[k] ELSE <<>>
Range(seq) == {seq[i] : i \in DOMAIN seq}
Min(a, b) == IF a < b THEN a ELSE b
RECURSIVE Pow2(_)
Pow2(n) == IF n = 0 THEN 1 ELSE 2 * Pow2(n - 1)

(***************************************************************************)
(* shard.go                                                                *)
(***************************************************************************)
NilEntry == [key |-> "", value |-> ZeroValue, expiresAt |-> 0, refreshAt |-> 0,
             numOfRefreshRetries |-> 0, isMissingRecord |-> FALSE]

newShard == [entries |-> EmptyMap, entryKeysByAlias |-> EmptyMap,
             aliasesByEntryKey |-> EmptyMap]

\* len(s.entries)
ShardLen(sh) == Cardinality(DOMAIN sh.entries)

\* The cutoff among the expiration times of `entries`: the element of rank
\* floor(n * percentage / 100) in ascending order (the last one at most), so
\* that that many entries lie before it when the times are distinct.
FindCutoff(entries, percentage) ==
    LET n == Cardinality(DOMAIN entries)
        idx == Min((n * percentage) \div 100, n - 1)
        Below(x) == Cardinality({k \in DOMAIN entries : entries[k].expiresAt < x})
        AtMost(x) == Cardinality({k \in DOMAIN entries : entries[k].expiresAt <= x})
    IN  IF n = 0 THEN -1
        ELSE CHOOSE x \in {entries[k].expiresAt : k \in DOMAIN entries} :
                 Below(x) <= idx /\ idx < AtMost(x)

unsafeDelete(sh, key) ==
    IF key \notin DOMAIN sh.entries THEN sh
    ELSE LET aliases == MapLoadSlice(sh.aliasesByEntryKey, key)
         IN  [entries |-> MapDelete(sh.entries, key),
              entryKeysByAlias |->
                  [a \in (DOMAIN sh.entryKeysByAlias) \ Range(aliases) |->
                      sh.entryKeysByAlias[a]],
              aliasesByEntryKey |-> MapDelete(sh.aliasesByEntryKey, key)]

RECURSIVE unsafeDeleteAll(_, _)
unsafeDeleteAll(sh, keys) ==
    IF keys = {} THEN sh
    ELSE LET k == CHOOSE x \in keys : TRUE
         IN  unsafeDeleteAll(unsafeDelete(sh, k), keys \ {k})

\* a forced eviction that deletes the entries that expire after the cutoff
ForceEvictLatest(sh, percentage) ==
    LET cutoff == FindCutoff(sh.entries, percentage)
    IN  {k \in DOMAIN sh.entries : sh.entries[k].expiresAt > cutoff}

\* the keys forceEvict deletes: those that expire before the cutoff
ForceEvictVictims(sh, percentage) ==
    LET cutoff == FindCutoff(sh.entries, percentage)
    IN  {k \in DOMAIN sh.entries : sh.entries[k].expiresAt < cutoff}

forceEvict(sh, percentage) ==
    unsafeDeleteAll(sh, ForceEvictVictims(sh, percentage))

\* a sweep that also removes the entries that expire at this very instant
evictExpiredOrExpiring(sh, now) ==
    [sh EXCEPT !.entries =
        [k \in {x \in DOMAIN sh.entries : now < sh.entries[x].expiresAt} |->
            sh.entries[k]]]

\* evictExpired deletes from s.entries only
evictExpired(sh, now) ==
    [sh EXCEPT !.entries =
        [k \in {x \in DOMAIN sh.entries : ~(now > sh.entries[x].expiresAt)} |->
            sh.entries[k]]]

\* an expiry check that lets an entry live one tick too long
ExpiredOneTickLate(e, now) == now > e.expiresAt + 1

\* the expiry check of shard.get: s.clock.Now().After(item.expiresAt)
Expired(e, now) == now > e.expiresAt

\* the entry found is named by its primary key
unsafeGetByKeyOrAlias(sh, keyOrAlias) ==
    IF keyOrAlias \in DOMAIN sh.entries
    THEN [ok |-> TRUE, key |-> keyOrAlias]
    ELSE LET entryKey == MapLoadString(sh.entryKeysByAlias, keyOrAlias)
         IN  IF entryKey = ""
             THEN [ok |-> FALSE, key |-> ""]
             ELSE [ok |-> entryKey \in DOMAIN sh.entries, key |-> entryKey]

RECURSIVE PutAliases(_, _, _)
PutAliases(m, aliases, key) ==
    IF aliases = <<>> THEN m
    ELSE PutAliases(MapPut(m, Head(aliases), key), Tail(aliases), key)

UpsertPanics(sh, key, aliases) ==
    \E i \in DOMAIN aliases :
        /\ aliases[i] \in DOMAIN sh.entryKeysByAlias
        /\ sh.entryKeysByAlias[aliases[i]] # key

\* the shard after unsafeUpsert, when it does not panic
unsafeUpsert(sh, newEntry, key, aliases) ==
    LET sh1 == IF key \in DOMAIN sh.entries THEN unsafeDelete(sh, key) ELSE sh
    IN  [entries |-> MapPut(sh1.entries, key, newEntry),
         entryKeysByAlias |-> PutAliases(sh1.entryKeysByAlias, aliases, key),
         aliasesByEntryKey |-> MapPut(sh1.aliasesByEntryKey, key, aliases)]

\* an entry that is given no time to live
newEntryWithoutTtl(key, value, isMissingRecord, now, refresh, padding) ==
    [key |-> key, value |-> value,
     expiresAt |-> now,
     refreshAt |-> IF refresh THEN now + MinRefreshTime + padding ELSE 0,
     numOfRefreshRetries |-> 0,
     isMissingRecord |-> isMissingRecord]

\* an entry that never carries the missing-record mark
newEntryNeverMissing(key, value, isMissingRecord, now, refresh, padding) ==
    [key |-> key, value |-> value,
     expiresAt |-> now + Ttl,
     refreshAt |-> IF refresh THEN now + MinRefreshTime + padding ELSE 0,
     numOfRefreshRetries |-> 0,
     isMissingRecord |-> FALSE]

\* the entry shard.set builds (shard.go:190-207)
newEntry(key, value, isMissingRecord, now, refresh, padding) ==
    [key |-> key, value |-> value,
     expiresAt |-> now + Ttl,
     refreshAt |-> IF refresh THEN now + MinRefreshTime + padding ELSE 0,
     numOfRefreshRetries |-> 0,
     isMissingRecord |-> isMissingRecord]

\* a shard.set that does not reject the write when eviction is disabled
shardSetWithoutRejection(sh, key, value, isMissingRecord, aliases, now, percentage, refresh, padding) ==
    LET evict == ShardLen(sh) >= ShardSize
        victims == IF evict THEN ForceEvictVictims(sh, percentage) ELSE {}
        sh1 == IF evict THEN forceEvict(sh, percentage) ELSE sh
        e == newEntry(key, value, isMissingRecord, now, refresh, padding)
    IN  IF UpsertPanics(sh1, key, aliases)
        THEN [shard |-> sh1, evicted |-> evict, wrote |-> FALSE,
              panic |-> TRUE, victims |-> victims]
        ELSE [shard |-> unsafeUpsert(sh1, e, key, aliases),
              evicted |-> evict, wrote |-> TRUE, panic |-> FALSE,
              victims |-> victims]

\* shard.set: the shard it leaves, the boolean it returns, whether it wrote
\* the entry, whether unsafeUpsert panicked, and the keys forceEvict deleted
shardSet(sh, key, value, isMissingRecord, aliases, now, percentage, refresh, padding) ==
    LET evict == ShardLen(sh) >= ShardSize
    IN  IF percentage < 1 /\ evict
        THEN [shard |-> sh, evicted |-> FALSE, wrote |-> FALSE, panic |-> FALSE,
              victims |-> {}]
        ELSE LET victims == IF evict THEN ForceEvictVictims(sh, percentage) ELSE {}
                 sh1 == IF evict THEN forceEvict(sh, percentage) ELSE sh
                 e == newEntry(key, value, isMissingRecord, now, refresh, padding)
             IN  IF UpsertPanics(sh1, key, aliases)
                 THEN [shard |-> sh1, evicted |-> evict, wrote |-> FALSE,
                       panic |-> TRUE, victims |-> victims]
                 ELSE [shard |-> unsafeUpsert(sh1, e, key, aliases),
                       evicted |-> evict, wrote |-> TRUE, panic |-> FALSE,
                       victims |-> victims]

\* rand.Int64N(int64(s.maxRefreshTime - s.minRefreshTime)), 0 when they are equal
Paddings == IF MinRefreshTime # MaxRefreshTime
            THEN 0..(MaxRefreshTime - MinRefreshTime - 1)
            ELSE {0}


(***************************************************************************)
(* The state.                                                              *)
(***************************************************************************)
VARIABLES
    clock,                \* c.clock.Now()
    shards,               \* c.shards: the three maps of every shard
    shardIndexByAlias,    \* c.shardIndexByAlias (a sync.Map)
    nextShard,            \* c.nextShard
    evictionPercentage,   \* the evictionPercentage given to New
    refreshInBackground,  \* cfg.refreshInBackground
    pc,                   \* where each client goroutine is
    call,                 \* the call a client is in: its arguments and locals
    item,                 \* the *entry a get holds between its two locks
    ret,                  \* what a client's last call returned
    written,              \* for each key, the last Set of it that wrote
    fault,                \* the panic that ended the process, if any
    ops                   \* the number of calls made

vars == <<clock, shards, shardIndexByAlias, nextShard, evictionPercentage,
          refreshInBackground, pc, call, item, ret, written, fault, ops>>

NoCall == [op |-> "none", key |-> "", value |-> ZeroValue, aliases |-> <<>>,
           isMissingRecord |-> FALSE, shardIndex |-> 0, i |-> 0,
           repeat |-> FALSE, conflict |-> {}, readAt |-> 0]

NoItem == [held |-> FALSE, live |-> FALSE, shard |-> 0, key |-> "",
           obj |-> NilEntry, cohort |-> {}]

NoRet == [op |-> "none", key |-> "", value |-> ZeroValue, aliases |-> <<>>,
          val |-> ZeroValue, exists |-> FALSE, missing |-> FALSE,
          refresh |-> FALSE, evicted |-> FALSE, wrote |-> FALSE,
          shardIndex |-> 0, readAt |-> 0, sawDue |-> FALSE, signalAt |-> 0,
          newRefreshAt |-> 0, expiredAtRead |-> FALSE, repeat |-> FALSE,
          sizeBefore |-> 0, removed |-> 0, conflict |-> {}]

(***************************************************************************)
(* cache.go: routing.                                                      *)
(***************************************************************************)
\* the index, or -1 when the key is not a known alias
findShardIndexByAlias(key) ==
    IF key \in DOMAIN shardIndexByAlias THEN shardIndexByAlias[key] ELSE -1

getShardIndex(key) ==
    LET shardIndex == findShardIndexByAlias(key)
    IN  IF shardIndex = -1 THEN Hash(key) ELSE shardIndex

(***************************************************************************)
(* The *entry pointers held by gets that are between their two locks.  A   *)
(* pointer is live while its entry is the one stored under its key; when   *)
(* the entry is deleted or replaced the holders keep the old object, which *)
(* they share (cohort).                                                    *)
(***************************************************************************)
Holders(items, s, k) ==
    {u \in Clients : items[u].held /\ items[u].live /\ items[u].shard = s
                     /\ items[u].key = k}

\* the pointers after the entries of shard s under the keys `killed` were
\* deleted or replaced; oldShard is the shard before
Detach(items, s, oldShard, killed) ==
    [u \in Clients |->
        IF items[u].held /\ items[u].live /\ items[u].shard = s
           /\ items[u].key \in killed
        THEN [items[u] EXCEPT !.live = FALSE,
                              !.obj = oldShard.entries[items[u].key],
                              !.cohort = Holders(items, s, items[u].key)]
        ELSE items[u]]

\* the pointers after client t dropped its own
Release(items, t) ==
    [u \in Clients |->
        IF u = t THEN NoItem
        ELSE [items[u] EXCEPT !.cohort = items[u].cohort \ {t}]]

\* the entry client t's pointer refers to
ItemObj(t) ==
    IF item[t].live THEN shards[item[t].shard].entries[item[t].key]
    ELSE item[t].obj

Panic(t, what) ==
    /\ fault' = what
    /\ pc' = [pc EXCEPT ![t] = "panicked"]

Running == fault = "none"


(***************************************************************************)
(* Client.Set (cache.go:254): getShardIndex, set_aliasGuard, shard.set.    *)
(***************************************************************************)
\* the aliases of the call that are bound, in some shard, to a different key
AliasConflict(key, aliases) ==
    {a \in Range(aliases) :
        \E s \in ShardIds :
            /\ a \in DOMAIN shards[s].entryKeysByAlias
            /\ shards[s].entryKeysByAlias[a] # key}

\* a guard that takes every alias of the shard to belong to the key
GuardKeyAlwaysSame(sh, alias, key) == FALSE

\* c.shards[shardIndex].entryKeysByAlias[alias] != key (cache.go:274)
GuardKeyDiffers(sh, alias, key) ==
    MapLoadString(sh.entryKeysByAlias, alias) # key

CallSet(t, key, value, aliases) ==
    /\ Running /\ pc[t] = "idle" /\ ops < MaxOps
    /\ call' = [call EXCEPT ![t] =
                   [NoCall EXCEPT !.op = "Set", !.key = key, !.value = value,
                                  !.aliases = aliases,
                                  !.shardIndex = getShardIndex(key), !.i = 1,
                                  !.repeat = /\ ret[t].op = "Set"
                                             /\ ret[t].key = key
                                             /\ ret[t].value = value
                                             /\ ret[t].aliases = aliases,
                                  !.conflict = AliasConflict(key, aliases)]]
    /\ pc' = [pc EXCEPT ![t] = IF aliases = <<>> THEN "setShard" ELSE "guardLoad"]
    /\ ret' = [ret EXCEPT ![t] = NoRet]
    /\ written' = MapDelete(written, key)
    /\ ops' = ops + 1
    /\ UNCHANGED <<clock, shards, shardIndexByAlias, nextShard, evictionPercentage,
                   refreshInBackground, item, fault>>

\* the guard moves on to the next alias, or to shard.set after the last one
GuardNext(t) ==
    /\ call' = [call EXCEPT ![t].i = call[t].i + 1]
    /\ pc' = [pc EXCEPT ![t] =
                 IF call[t].i = Len(call[t].aliases) THEN "setShard" ELSE "guardLoad"]

\* c.shardIndexByAlias.Load(alias), and the comparison of the shard indices
GuardLoad(t) ==
    /\ Running /\ pc[t] = "guardLoad"
    /\ LET alias == call[t].aliases[call[t].i]
       IN  IF alias \in DOMAIN shardIndexByAlias
           THEN IF shardIndexByAlias[alias] # call[t].shardIndex
                THEN Panic(t, "alias already exists in a different shard")
                ELSE pc' = [pc EXCEPT ![t] = "guardRead"] /\ UNCHANGED fault
           ELSE pc' = [pc EXCEPT ![t] = "guardStore"] /\ UNCHANGED fault
    /\ UNCHANGED <<clock, shards, shardIndexByAlias, nextShard, evictionPercentage,
                   refreshInBackground, call, item, ret, written, ops>>

\* c.shards[shardIndex].entryKeysByAlias[alias] != key, read without the lock
GuardRead(t) ==
    /\ Running /\ pc[t] = "guardRead"
    /\ LET alias == call[t].aliases[call[t].i]
           sh == shards[call[t].shardIndex]
       IN  IF GuardKeyDiffers(sh, alias, call[t].key)
           THEN Panic(t, "alias already exists for a different key")
                /\ UNCHANGED call
           ELSE GuardNext(t) /\ UNCHANGED fault
    /\ UNCHANGED <<clock, shards, shardIndexByAlias, nextShard, evictionPercentage,
                   refreshInBackground, item, ret, written, ops>>

\* The read of entryKeysByAlias in the guard is made without the shard's
\* lock.  When it runs while another goroutine is inside shard.set on the
\* same shard, it is a data race on a Go map: besides reading the map as it
\* was before or after the write (GuardRead), the runtime may stop the
\* process with "concurrent map read and map write".
GuardReadRace(t) ==
    /\ Running /\ pc[t] = "guardRead"
    /\ \E u \in Clients \ {t} :
           /\ pc[u] = "setShard"
           /\ call[u].shardIndex = call[t].shardIndex
    /\ Panic(t, "concurrent map read and map write")
    /\ UNCHANGED <<clock, shards, shardIndexByAlias, nextShard, evictionPercentage,
                   refreshInBackground, call, item, ret, written, ops>>

\* c.shardIndexByAlias.Store(alias, shardIndex)
GuardStore(t) ==
    /\ Running /\ pc[t] = "guardStore"
    /\ LET alias == call[t].aliases[call[t].i]
       IN  /\ shardIndexByAlias' = MapPut(shardIndexByAlias, alias, call[t].shardIndex)
           /\ written' = IF alias \in DOMAIN written /\ alias # call[t].key
                         THEN [written EXCEPT ![alias].aliased = TRUE]
                         ELSE written
    /\ GuardNext(t)
    /\ UNCHANGED <<clock, shards, nextShard, evictionPercentage,
                   refreshInBackground, item, ret, fault, ops>>

\* `written` after a shard.set that deleted `victims` and, for a Set that
\* wrote, stored the value
WrittenAfterSet(c, r) ==
    LET marked == [k \in DOMAIN written |->
                      IF k \in r.victims /\ written[k].shardIndex = c.shardIndex
                      THEN [written[k] EXCEPT !.evicted = TRUE]
                      ELSE written[k]]
    IN  IF r.wrote /\ c.op = "Set"
        THEN MapPut(marked, c.key,
                    [val |-> c.value, at |-> clock, shardIndex |-> c.shardIndex,
                     evicted |-> FALSE, aliased |-> FALSE])
        ELSE marked

\* shard.set, under the shard's lock, for Set and for StoreMissingRecord
ShardSetStep(t) ==
    /\ Running /\ pc[t] = "setShard"
    /\ \E padding \in Paddings :
        LET c == call[t]
            sh == shards[c.shardIndex]
            r == shardSet(sh, c.key, c.value, c.isMissingRecord, c.aliases, clock,
                          evictionPercentage, refreshInBackground, padding)
            killed == r.victims \cup (IF r.wrote THEN {c.key} ELSE {})
        IN  /\ shards' = [shards EXCEPT ![c.shardIndex] = r.shard]
            /\ item' = Detach(item, c.shardIndex, sh, killed)
            /\ written' = WrittenAfterSet(c, r)
            /\ IF r.panic
               THEN /\ Panic(t, "alias already exists on key")
                    /\ UNCHANGED <<call, ret>>
               ELSE /\ pc' = [pc EXCEPT ![t] = "idle"]
                    /\ call' = [call EXCEPT ![t] = NoCall]
                    /\ ret' = [ret EXCEPT ![t] =
                          [NoRet EXCEPT !.op = c.op, !.key = c.key,
                                        !.value = c.value, !.aliases = c.aliases,
                                        !.evicted = r.evicted, !.wrote = r.wrote,
                                        !.shardIndex = c.shardIndex,
                                        !.readAt = clock, !.repeat = c.repeat,
                                        !.conflict = c.conflict,
                                        !.sizeBefore = ShardLen(sh),
                                        !.removed = Cardinality(r.victims)]]
                    /\ UNCHANGED fault
    /\ UNCHANGED <<clock, shardIndexByAlias, nextShard, evictionPercentage,
                   refreshInBackground, ops>>

\* Client.StoreMissingRecord (cache.go:295): getShard, then shard.set
CallStoreMissingRecord(t, key) ==
    /\ Running /\ pc[t] = "idle" /\ ops < MaxOps
    /\ call' = [call EXCEPT ![t] =
                   [NoCall EXCEPT !.op = "StoreMissingRecord", !.key = key,
                                  !.isMissingRecord = TRUE,
                                  !.shardIndex = getShardIndex(key)]]
    /\ pc' = [pc EXCEPT ![t] = "setShard"]
    /\ ret' = [ret EXCEPT ![t] = NoRet]
    /\ written' = MapDelete(written, key)
    /\ ops' = ops + 1
    /\ UNCHANGED <<clock, shards, shardIndexByAlias, nextShard, evictionPercentage,
                   refreshInBackground, item, fault>>


(***************************************************************************)
(* Client.Get / getWithState (cache.go:170, 186) and shard.get.            *)
(***************************************************************************)
\* in shard s the key resolves to a stored entry whose expiresAt has passed
ExpiredNow(s, key) ==
    LET r == unsafeGetByKeyOrAlias(shards[s], key)
    IN  r.ok /\ clock > shards[s].entries[r.key].expiresAt

CallGet(t, key) ==
    /\ Running /\ pc[t] = "idle" /\ ops < MaxOps
    /\ call' = [call EXCEPT ![t] =
                   [NoCall EXCEPT !.op = "Get", !.key = key,
                                  !.shardIndex = getShardIndex(key)]]
    /\ pc' = [pc EXCEPT ![t] = "getShard"]
    /\ ret' = [ret EXCEPT ![t] = NoRet]
    /\ ops' = ops + 1
    /\ UNCHANGED <<clock, shards, shardIndexByAlias, nextShard, evictionPercentage,
                   refreshInBackground, item, written, fault>>

\* what a get returns: val, exists, markedAsMissing, refresh
GetReturn(t, val, exists, missing, refresh, sawDue, newRefreshAt) ==
    /\ pc' = [pc EXCEPT ![t] = "idle"]
    /\ call' = [call EXCEPT ![t] = NoCall]
    /\ ret' = [ret EXCEPT ![t] =
          [NoRet EXCEPT !.op = "Get", !.key = call[t].key, !.val = val,
                        !.exists = exists, !.missing = missing,
                        !.refresh = refresh, !.shardIndex = call[t].shardIndex,
                        !.readAt = IF sawDue THEN call[t].readAt ELSE clock,
                        !.sawDue = sawDue,
                        !.signalAt = IF sawDue THEN clock ELSE 0,
                        !.newRefreshAt = newRefreshAt,
                        !.expiredAtRead =
                            ~sawDue /\ ExpiredNow(call[t].shardIndex, call[t].key)]]

\* shard.get under the shared lock (shard.go:132-144, 167-168)
ShardGetStep(t) ==
    /\ Running /\ pc[t] = "getShard"
    /\ LET sh == shards[call[t].shardIndex]
           r == unsafeGetByKeyOrAlias(sh, call[t].key)
       IN  IF ~r.ok
           THEN GetReturn(t, ZeroValue, FALSE, FALSE, FALSE, FALSE, 0)
                /\ UNCHANGED item
           ELSE LET e == sh.entries[r.key]
                IN  IF Expired(e, clock)
                    THEN GetReturn(t, ZeroValue, FALSE, FALSE, FALSE, FALSE, 0)
                         /\ UNCHANGED item
                    ELSE IF refreshInBackground /\ clock > e.refreshAt
                    THEN /\ pc' = [pc EXCEPT ![t] = "getUpgrade"]
                         /\ call' = [call EXCEPT ![t].readAt = clock]
                         /\ item' = [item EXCEPT ![t] =
                               [NoItem EXCEPT !.held = TRUE, !.live = TRUE,
                                              !.shard = call[t].shardIndex,
                                              !.key = r.key]]
                         /\ UNCHANGED ret
                    ELSE GetReturn(t, e.value, TRUE, e.isMissingRecord, FALSE,
                                   FALSE, 0)
                         /\ UNCHANGED item
    /\ UNCHANGED <<clock, shards, shardIndexByAlias, nextShard, evictionPercentage,
                   refreshInBackground, written, fault, ops>>

\* a refresh that is put off by retryBaseDelay whatever the number of retries
AdvanceWithoutBackoff(e, now) ==
    [e EXCEPT !.refreshAt = now + RetryBaseDelay,
              !.numOfRefreshRetries = e.numOfRefreshRetries + 1]

\* item.refreshAt and item.numOfRefreshRetries after a refresh is signalled
Advance(e, now) ==
    [e EXCEPT !.refreshAt = now + RetryBaseDelay * Pow2(e.numOfRefreshRetries),
              !.numOfRefreshRetries = e.numOfRefreshRetries + 1]

\* a re-check that never holds a refresh off
RecheckNeverHoldsOff(e, now) == FALSE

\* the re-check of shard.get under the exclusive lock holds off the refresh
RecheckHoldsOff(e, now) == ~(now > e.refreshAt)

\* shard.get under the exclusive lock (shard.go:148-164)
GetRecheck(t) ==
    /\ Running /\ pc[t] = "getUpgrade"
    /\ LET e == ItemObj(t)
       IN  IF RecheckHoldsOff(e, clock)
           THEN /\ GetReturn(t, e.value, TRUE, e.isMissingRecord, FALSE, TRUE, 0)
                /\ item' = Release(item, t)
                /\ UNCHANGED shards
           ELSE LET e2 == Advance(e, clock)
                IN  /\ GetReturn(t, e.value, TRUE, e.isMissingRecord, TRUE, TRUE,
                                 e2.refreshAt)
                    /\ IF item[t].live
                       THEN /\ shards' = [shards EXCEPT
                                   ![item[t].shard].entries[item[t].key] = e2]
                            /\ item' = Release(item, t)
                       ELSE /\ item' = Release(
                                   [u \in Clients |->
                                       IF u \in item[t].cohort
                                       THEN [item[u] EXCEPT !.obj = e2]
                                       ELSE item[u]], t)
                            /\ UNCHANGED shards
    /\ UNCHANGED <<clock, shardIndexByAlias, nextShard, evictionPercentage,
                   refreshInBackground, written, fault, ops>>

(***************************************************************************)
(* Client.Delete (cache.go:378) and shard.delete.                          *)
(***************************************************************************)
CallDelete(t, key) ==
    /\ Running /\ pc[t] = "idle" /\ ops < MaxOps
    /\ call' = [call EXCEPT ![t] =
                   [NoCall EXCEPT !.op = "Delete", !.key = key,
                                  !.shardIndex = getShardIndex(key)]]
    /\ pc' = [pc EXCEPT ![t] = "delShard"]
    /\ ret' = [ret EXCEPT ![t] = NoRet]
    /\ written' = MapDelete(written, key)
    /\ ops' = ops + 1
    /\ UNCHANGED <<clock, shards, shardIndexByAlias, nextShard, evictionPercentage,
                   refreshInBackground, item, fault>>

ShardDeleteStep(t) ==
    /\ Running /\ pc[t] = "delShard"
    /\ LET c == call[t]
           sh == shards[c.shardIndex]
       IN  /\ shards' = [shards EXCEPT ![c.shardIndex] = unsafeDelete(sh, c.key)]
           /\ item' = Detach(item, c.shardIndex, sh, {c.key})
           /\ ret' = [ret EXCEPT ![t] =
                 [NoRet EXCEPT !.op = "Delete", !.key = c.key,
                               !.shardIndex = c.shardIndex, !.readAt = clock]]
    /\ pc' = [pc EXCEPT ![t] = "idle"]
    /\ call' = [call EXCEPT ![t] = NoCall]
    /\ UNCHANGED <<clock, shardIndexByAlias, nextShard, evictionPercentage,
                   refreshInBackground, written, fault, ops>>

(***************************************************************************)
(* The clock, and the sweep of performContinuousEvictions (cache.go:120).  *)
(***************************************************************************)
Tick ==
    /\ Running /\ clock < MaxTime
    /\ clock' = clock + 1
    /\ UNCHANGED <<shards, shardIndexByAlias, nextShard, evictionPercentage,
                   refreshInBackground, pc, call, item, ret, written, fault, ops>>

\* a sweep that stays on the shard it is on
NextShardStuck(n) == n

\* c.nextShard = (c.nextShard + 1) % len(c.shards)
NextShardAfter(n) == (n + 1) % NumShards

\* one tick of the ticker: evictExpired on one shard, then the next shard
SweepTick ==
    /\ Running
    /\ LET sh == shards[nextShard]
           sh2 == evictExpired(sh, clock)
       IN  /\ shards' = [shards EXCEPT ![nextShard] = sh2]
           /\ item' = Detach(item, nextShard, sh,
                             (DOMAIN sh.entries) \ (DOMAIN sh2.entries))
    /\ nextShard' = NextShardAfter(nextShard)
    /\ UNCHANGED <<clock, shardIndexByAlias, evictionPercentage,
                   refreshInBackground, pc, call, ret, written, fault, ops>>

(***************************************************************************)
(* The cache after New, used by one client goroutine beside the sweep.     *)
(***************************************************************************)
InitCache ==
    /\ clock = 0
    /\ shards = [s \in ShardIds |-> newShard]
    /\ shardIndexByAlias = EmptyMap
    /\ nextShard = 0
    /\ pc = [t \in Clients |-> "idle"]
    /\ call = [t \in Clients |-> NoCall]
    /\ item = [t \in Clients |-> NoItem]
    /\ ret = [t \in Clients |-> NoRet]
    /\ written = EmptyMap
    /\ fault = "none"
    /\ ops = 0

(***************************************************************************)
(* Spec: one client reads back what it wrote, in a cache that evicts half  *)
(* of a full shard.  "", "k1" and "k2" share shard 0 (whose capacity is     *)
(* 2); "k3" lives in shard 1 and carries "k1" as an alias.  A call to Set  *)
(* is <<key, aliases, value>>.                                             *)
(***************************************************************************)
SpecSets == {<<"", <<>>, 1>>, <<"k1", <<>>, 1>>, <<"k2", <<>>, 1>>,
             <<"k3", <<"k1">>, 2>>}

Init ==
    /\ InitCache
    /\ evictionPercentage = 50
    /\ refreshInBackground = TRUE

Next ==
    \/ \E a \in SpecSets : CallSet("c1", a[1], a[3], a[2])
    \/ GuardLoad("c1")
    \/ GuardRead("c1")
    \/ GuardStore("c1")
    \/ ShardSetStep("c1")
    \/ CallStoreMissingRecord("c1", "k1")
    \/ \E key \in {"k1", "k2"} : CallGet("c1", key)
    \/ ShardGetStep("c1")
    \/ GetRecheck("c1")
    \/ CallDelete("c1", "k1")
    \/ ShardDeleteStep("c1")
    \/ Tick
    \/ SweepTick

Spec == Init /\ [][Next]_vars


(***************************************************************************)
(* Properties of Spec.                                                     *)
(***************************************************************************)
\* what Client.Get returns as found: ok && !markedAsMissing
Found(r) == r.exists /\ ~r.missing

\* the last call of client t was a Get of a key whose last Set wrote it and
\* was followed by no Set, StoreMissingRecord or Delete of that key, and the
\* get read the shard before ttl had elapsed since that Set
ReadBack(t) ==
    /\ ret[t].op = "Get"
    /\ ret[t].key \in DOMAIN written
    /\ ret[t].readAt < written[ret[t].key].at + Ttl

\* C1 as stated: a key that was Set and is read back before ttl has elapsed,
\* with no Set or Delete of it in between, is found with the value Set.
C1_ReadBackAlways ==
    \A t \in Clients :
        ReadBack(t) =>
            Found(ret[t]) /\ ret[t].val = written[ret[t].key].val

\* C1, amended: a key that was Set and is read back before ttl has elapsed,
\* with no Set, StoreMissingRecord or Delete of it in between, is found with
\* the value Set, unless a forced eviction deleted its entry or another Set
\* registered the key as an alias in between.
C1_ReadBack ==
    \A t \in Clients :
        (/\ ReadBack(t)
         /\ ~written[ret[t].key].evicted
         /\ ~written[ret[t].key].aliased) =>
            Found(ret[t]) /\ ret[t].val = written[ret[t].key].val

\* a Get read back, one tick after the Set, a key whose shard went through a
\* forced eviction since
C1_Witness ==
    \E t \in Clients :
        /\ ReadBack(t)
        /\ ~written[ret[t].key].evicted
        /\ ~written[ret[t].key].aliased
        /\ ret[t].readAt > written[ret[t].key].at
        /\ \E k \in DOMAIN written : written[k].evicted
        /\ Found(ret[t])

C8_CapacityBound ==
    \A s \in ShardIds : ShardLen(shards[s]) <= ShardSize

\* C10: a Set that found its shard at capacity, with an evictionPercentage p
\* of at least 1, removed at least one entry and p% of the entries to within
\* one entry.
C10_EvictionAmount ==
    \A t \in Clients :
        (ret[t].op = "Set" /\ ret[t].evicted) =>
            /\ ret[t].removed >= 1
            /\ ret[t].removed * 100 - ret[t].sizeBefore * evictionPercentage <= 100
            /\ ret[t].sizeBefore * evictionPercentage - ret[t].removed * 100 <= 100


(***************************************************************************)
(* SpecNoEvict: one client and a cache built with evictionPercentage 0,    *)
(* whose full shards reject writes.  "", "k1" and "k2" share shard 0.       *)
(***************************************************************************)
NoEvictSets == {<<"", <<>>, 1>>, <<"k2", <<>>, 1>>, <<"k1", <<"a1">>, 1>>}

InitNoEvict ==
    /\ InitCache
    /\ evictionPercentage = 0
    /\ refreshInBackground = FALSE

NextNoEvict ==
    \/ \E a \in NoEvictSets : CallSet("c1", a[1], a[3], a[2])
    \/ GuardLoad("c1")
    \/ GuardRead("c1")
    \/ GuardStore("c1")
    \/ ShardSetStep("c1")
    \/ CallStoreMissingRecord("c1", "k3")
    \/ \E key \in {"k1", "a1"} : CallGet("c1", key)
    \/ ShardGetStep("c1")
    \/ CallDelete("c1", "k2")
    \/ ShardDeleteStep("c1")
    \/ Tick
    \/ SweepTick

SpecNoEvict == InitNoEvict /\ [][NextNoEvict]_vars

\* C6: a Set called a second time with the arguments of the call before it
\* completes without fault, and leaves one entry for the key with exactly
\* the given aliases bound to it.
C6_SetIdempotent ==
    \A t \in Clients :
        /\ (call[t].op = "Set" /\ call[t].repeat) => pc[t] # "panicked"
        /\ (/\ ret[t].op = "Set" /\ ret[t].repeat /\ ret[t].wrote
            /\ clock = ret[t].readAt) =>
               LET sh == shards[ret[t].shardIndex]
               IN  /\ ret[t].key \in DOMAIN sh.entries
                   /\ MapLoadSlice(sh.aliasesByEntryKey, ret[t].key) = ret[t].aliases
                   /\ \A a \in DOMAIN sh.entryKeysByAlias :
                          sh.entryKeysByAlias[a] = ret[t].key <=>
                              a \in Range(ret[t].aliases)

\* a shard.set step of client t that finds its shard at capacity
AtCapacity(t) ==
    /\ pc[t] = "setShard"
    /\ pc'[t] # "setShard"
    /\ ShardLen(shards[call[t].shardIndex]) >= ShardSize

\* C9: with evictionPercentage < 1, a set that finds its shard at capacity
\* returns false and writes nothing: the entries and the two alias maps of
\* every shard are as before the call, and no fault is raised.
C9_RejectedAtCapacity ==
    [][\A t \in Clients :
          (AtCapacity(t) /\ evictionPercentage < 1) =>
              /\ shards' = shards
              /\ ret'[t].op = call[t].op
              /\ ~ret'[t].evicted
              /\ ~ret'[t].wrote
              /\ fault' = "none"
              /\ pc'[t] = "idle"]_vars

\* a Set of a key with an alias was turned away by its full shard
C9_Witness ==
    \E t \in Clients :
        /\ ret[t].op = "Set"
        /\ ret[t].aliases # <<>>
        /\ ret[t].sizeBefore >= ShardSize
        /\ ~ret[t].wrote
        /\ ret[t].key \notin DOMAIN shards[ret[t].shardIndex].entries


(***************************************************************************)
(* SpecAlias: one client whose Sets carry the alias "a1".  "", "k1" and     *)
(* "k2" hash to shard 0; "k3" and "a1" hash to shard 1.                     *)
(***************************************************************************)
AliasSets == {<<"", <<"a1">>, 1>>, <<"k1", <<"a1">>, 1>>, <<"k2", <<"a1">>, 1>>,
              <<"k3", <<"a1">>, 2>>}

InitAlias ==
    /\ InitCache
    /\ evictionPercentage = 50
    /\ refreshInBackground = FALSE

NextAlias ==
    \/ \E a \in AliasSets : CallSet("c1", a[1], a[3], a[2])
    \/ GuardLoad("c1")
    \/ GuardRead("c1")
    \/ GuardStore("c1")
    \/ ShardSetStep("c1")
    \/ CallGet("c1", "a1")
    \/ ShardGetStep("c1")
    \/ CallDelete("c1", "k1")
    \/ ShardDeleteStep("c1")
    \/ Tick
    \/ SweepTick

SpecAlias == InitAlias /\ [][NextAlias]_vars

\* what a Get of the key would return in this state: the value and found
\* (cache.go:170-196, without the refresh signal)
Lookup(key) ==
    LET sh == shards[getShardIndex(key)]
        r == unsafeGetByKeyOrAlias(sh, key)
    IN  IF r.ok /\ ~Expired(sh.entries[r.key], clock)
        THEN [val |-> sh.entries[r.key].value,
              found |-> ~sh.entries[r.key].isMissingRecord]
        ELSE [val |-> ZeroValue, found |-> FALSE]

\* the last call of client t was a Set that wrote, and neither a call nor a
\* tick of the clock has come after it
JustSet(t) ==
    /\ pc[t] = "idle"
    /\ ret[t].op = "Set"
    /\ ret[t].wrote
    /\ clock = ret[t].readAt

\* C3: after a Set that wrote primary key p with aliases a1..an, a Get of
\* every alias finds the value Set, and every alias routes to the shard p
\* routes to.
C3_AliasRoundTrip ==
    \A t \in Clients :
        JustSet(t) =>
            \A a \in Range(ret[t].aliases) :
                /\ getShardIndex(a) = getShardIndex(ret[t].key)
                /\ Lookup(a) = [val |-> ret[t].value, found |-> TRUE]

\* C4: a Set of key k2 that carries an alias bound, when Set is called, to a
\* different key never returns: it stays in the alias guard until the guard
\* panics, before shard.set is entered, and the alias is never bound to k2.
C4_ConflictPanics ==
    \A t \in Clients :
        /\ ret[t].conflict = {}
        /\ call[t].conflict # {} =>
               /\ pc[t] \in {"guardLoad", "guardRead", "guardStore", "panicked"}
               /\ \A a \in call[t].conflict : \A s \in ShardIds :
                      ~(/\ a \in DOMAIN shards[s].entryKeysByAlias
                        /\ shards[s].entryKeysByAlias[a] = call[t].key)

\* the guard panicked on an alias that another shard binds to another key
C4_Witness ==
    \E t \in Clients : \E a \in call[t].conflict :
        /\ pc[t] = "panicked"
        /\ a \notin DOMAIN shards[call[t].shardIndex].entryKeysByAlias
        /\ fault = "alias already exists in a different shard"

\* the guard panicked on an alias that the same shard binds to another key
C4_WitnessSameShard ==
    \E t \in Clients : \E a \in call[t].conflict :
        /\ pc[t] = "panicked"
        /\ a \in DOMAIN shards[call[t].shardIndex].entryKeysByAlias
        /\ fault = "alias already exists for a different key"


(***************************************************************************)
(* SpecConc: two client goroutines whose Sets carry the same new alias.    *)
(* "k1" and "k2" hash to shard 0, "k3" to shard 1.                          *)
(***************************************************************************)
ConcClients == {"c1", "c2"}
ConcSets == {<<"k1", <<"a1">>, 1>>, <<"k2", <<"a1">>, 1>>, <<"k3", <<"a1">>, 2>>}

InitConc ==
    /\ InitCache
    /\ evictionPercentage = 50
    /\ refreshInBackground = FALSE

NextConc ==
    \/ \E t \in ConcClients : \E a \in ConcSets : CallSet(t, a[1], a[3], a[2])
    \/ \E t \in ConcClients : GuardLoad(t)
    \/ \E t \in ConcClients : GuardRead(t)
    \/ \E t \in ConcClients : GuardReadRace(t)
    \/ \E t \in ConcClients : GuardStore(t)
    \/ \E t \in ConcClients : ShardSetStep(t)
    \/ Tick

SpecConc == InitConc /\ [][NextConc]_vars

\* the shards in which the alias is bound to a key
BoundIn(a) == {s \in ShardIds : a \in DOMAIN shards[s].entryKeysByAlias}

\* C5: as long as no Set has faulted, every alias is bound in at most one
\* shard, and the global alias-to-shard map records that shard; so two
\* concurrent Sets of different keys with the same new alias never both
\* succeed.
C5_GlobalAliasInvariant ==
    Running =>
        \A a \in Str :
            /\ Cardinality(BoundIn(a)) <= 1
            /\ \A s \in BoundIn(a) :
                   a \in DOMAIN shardIndexByAlias /\ shardIndexByAlias[a] = s


(***************************************************************************)
(* SpecRefresh: three goroutines Get the same entry of a cache that        *)
(* refreshes in the background.  The entry was Set when the clock was 0.   *)
(***************************************************************************)
RefreshKey == "k1"

InitRefresh ==
    /\ clock = 0
    /\ shards = [s \in ShardIds |->
                    IF s = Hash(RefreshKey)
                    THEN shardSet(newShard, RefreshKey, 1, FALSE, <<>>, 0, 50,
                                  TRUE, 0).shard
                    ELSE newShard]
    /\ shardIndexByAlias = EmptyMap
    /\ nextShard = 0
    /\ pc = [t \in Clients |-> "idle"]
    /\ call = [t \in Clients |-> NoCall]
    /\ item = [t \in Clients |-> NoItem]
    /\ ret = [t \in Clients |-> NoRet]
    /\ written = EmptyMap
    /\ fault = "none"
    /\ ops = 0
    /\ evictionPercentage = 50
    /\ refreshInBackground = TRUE

NextRefresh ==
    \/ \E t \in Clients : CallGet(t, RefreshKey)
    \/ \E t \in Clients : ShardGetStep(t)
    \/ \E t \in Clients : GetRecheck(t)
    \/ Tick

SpecRefresh == InitRefresh /\ [][NextRefresh]_vars

\* the last call of client t was a get that found the entry due for a
\* refresh under the shared lock
SawDue(t) == ret[t].op = "Get" /\ ret[t].sawDue

\* C7: of the gets that find an entry due for a refresh, no two signal the
\* refresh unless the clock passed, between them, the refreshAt that the
\* first one set; a get that does not signal returns the value and exists =
\* true, and it does so only because the refreshAt it sees has been advanced
\* by a get that signalled.
C7_OneRefreshSignal ==
    \A t \in Clients :
        SawDue(t) =>
            /\ ret[t].exists /\ ret[t].val = 1
            /\ \A u \in Clients \ {t} :
                   (SawDue(u) /\ ret[t].refresh /\ ret[u].refresh) =>
                       \/ ret[t].signalAt > ret[u].newRefreshAt
                       \/ ret[u].signalAt > ret[t].newRefreshAt
            /\ ~ret[t].refresh =>
                   LET e == shards[ret[t].shardIndex].entries[ret[t].key]
                   IN  /\ e.numOfRefreshRetries >= 1
                       /\ e.refreshAt >= ret[t].signalAt

\* three gets found the entry due for a refresh at the same time; one of
\* them signalled the refresh and the two others did not
C7_Witness ==
    \E t \in Clients :
        /\ SawDue(t) /\ ret[t].refresh
        /\ \A u \in Clients \ {t} :
               /\ SawDue(u) /\ ~ret[u].refresh
               /\ ret[u].readAt = ret[t].readAt
               /\ ret[u].exists /\ ret[u].val = 1


(***************************************************************************)
(* Forced eviction, in Spec.                                               *)
(***************************************************************************)
\* the keys whose entries a step removed from shard s, the key the step
\* wrote aside
RemovedBy(t, s) ==
    ((DOMAIN shards[s].entries) \ (DOMAIN shards'[s].entries)) \ {call[t].key}

\* the keys whose entries a step left in shard s, the key the step wrote
\* aside
KeptBy(t, s) ==
    ((DOMAIN shards[s].entries) \cap (DOMAIN shards'[s].entries)) \ {call[t].key}

\* C11: a shard.set that finds its shard at capacity removes the entries that
\* expire soonest: every entry removed expires strictly before the cutoff,
\* every entry kept expires at the cutoff or later, so that none kept expires
\* before one removed; and the aliases in the alias list of a removed entry
\* are unbound with it.
C11_EvictionOrder ==
    [][\A t \in Clients :
          (AtCapacity(t) /\ evictionPercentage >= 1) =>
              LET s == call[t].shardIndex
                  sh == shards[s]
                  cutoff == FindCutoff(sh.entries, evictionPercentage)
              IN  /\ \A r \in RemovedBy(t, s) :
                         /\ sh.entries[r].expiresAt < cutoff
                         /\ \A k \in KeptBy(t, s) :
                                sh.entries[r].expiresAt < sh.entries[k].expiresAt
                         /\ r \notin DOMAIN shards'[s].aliasesByEntryKey
                         /\ \A a \in Range(MapLoadSlice(sh.aliasesByEntryKey, r)) :
                                \/ a \notin DOMAIN shards'[s].entryKeysByAlias
                                \/ a \in Range(call[t].aliases)
                  /\ \A k \in KeptBy(t, s) :
                         /\ sh.entries[k].expiresAt >= cutoff
                         /\ shards'[s].entries[k] = sh.entries[k]]_vars

\* a Set found its shard at capacity and removed an entry, and an alias that
\* was registered for the shard is no longer bound in it
C11_Witness ==
    \E t \in Clients : \E a \in DOMAIN shardIndexByAlias :
        /\ ret[t].op = "Set" /\ ret[t].evicted /\ ret[t].removed >= 1
        /\ shardIndexByAlias[a] = ret[t].shardIndex
        /\ a \notin DOMAIN shards[ret[t].shardIndex].entryKeysByAlias
        /\ ret[t].key \in DOMAIN shards[ret[t].shardIndex].entries


(***************************************************************************)
(* SpecSweep: one client Sets a key of each shard while the ticker of      *)
(* performContinuousEvictions keeps ticking.                               *)
(***************************************************************************)
SweepSets == {<<"k1", <<>>, 1>>, <<"k3", <<>>, 2>>}

InitSweep ==
    /\ InitCache
    /\ evictionPercentage = 50
    /\ refreshInBackground = FALSE

NextSweep ==
    \/ \E a \in SweepSets : CallSet("c1", a[1], a[3], a[2])
    \/ ShardSetStep("c1")
    \/ Tick
    \/ SweepTick

SpecSweep == InitSweep /\ [][NextSweep]_vars /\ WF_vars(SweepTick)

\* the entry stored under key k in shard s expires at x, and x has passed
ExpiredEntry(s, k, x) ==
    /\ k \in DOMAIN shards[s].entries
    /\ shards[s].entries[k].expiresAt = x
    /\ clock > x

\* a tick of the sweep: from shard nextShard it removes the expired entries,
\* it touches no other shard, and it moves on to the next shard, cyclically
OneShardSwept ==
    nextShard' # nextShard =>
        /\ nextShard' = (nextShard + 1) % NumShards
        /\ \A s \in ShardIds \ {nextShard} : shards'[s] = shards[s]
        /\ \A k \in DOMAIN shards[nextShard].entries :
               ~ExpiredEntry(nextShard, k, shards[nextShard].entries[k].expiresAt)
                   <=> k \in DOMAIN shards'[nextShard].entries

\* C12: the sweep starts at shard 0, every tick of it sweeps exactly one
\* shard and moves to the next in round-robin order, and, the ticker being
\* fair, every expired entry is eventually removed from its shard.
C12_SweepRoundRobin ==
    /\ nextShard = 0
    /\ [][OneShardSwept]_vars
    /\ \A s \in ShardIds : \A k \in Keys : \A x \in 0..(MaxTime + Ttl) :
           ExpiredEntry(s, k, x) ~> ~ExpiredEntry(s, k, x)

\* the sweep has gone round to shard 0 again, and the entry Set in shard 1
\* is gone although nothing but the sweep removes entries there
C12_Witness ==
    /\ nextShard = 0
    /\ "k3" \in DOMAIN written
    /\ ~written["k3"].evicted
    /\ clock > written["k3"].at + Ttl
    /\ "k3" \notin DOMAIN shards[1].entries
    /\ pc["c1"] = "idle"


(***************************************************************************)
(* Missing records, in Spec.                                               *)
(***************************************************************************)
\* what getWithState of the key would return in this state: the value,
\* exists and markedAsMissing (cache.go:170-175, without the refresh signal)
GetWithState(key) ==
    LET sh == shards[getShardIndex(key)]
        r == unsafeGetByKeyOrAlias(sh, key)
    IN  IF r.ok /\ ~Expired(sh.entries[r.key], clock)
        THEN [val |-> sh.entries[r.key].value, exists |-> TRUE,
              missing |-> sh.entries[r.key].isMissingRecord]
        ELSE [val |-> ZeroValue, exists |-> FALSE, missing |-> FALSE]

\* the last call of client t was a StoreMissingRecord that wrote, no call
\* has come after it, and the entry it wrote has not expired
MarkerStored(t) ==
    /\ pc[t] = "idle"
    /\ ret[t].op = "StoreMissingRecord"
    /\ ret[t].wrote
    /\ clock <= ret[t].readAt + Ttl

\* a shard.set step of a Set that writes its key, which is marked as missing
SetOverMarker(t) ==
    /\ pc[t] = "setShard" /\ call[t].op = "Set"
    /\ GetWithState(call[t].key).missing
    /\ pc'[t] = "idle" /\ ret'[t].wrote

\* C13: after StoreMissingRecord(k), and until the entry expires, the read
\* that returns the state reports exists = true and markedAsMissing = true
\* and Get reports not found; a Set(k, v) of a key marked as missing replaces
\* the mark, so that Get(k) finds v.
C13_MissingRecord ==
    /\ [](\A t \in Clients :
             MarkerStored(t) =>
                 /\ GetWithState(ret[t].key) =
                        [val |-> ZeroValue, exists |-> TRUE, missing |-> TRUE]
                 /\ ~Lookup(ret[t].key).found)
    /\ [][\A t \in Clients :
             SetOverMarker(t) =>
                 /\ ret'[t].key = call[t].key /\ ret'[t].value = call[t].value
                 /\ (GetWithState(ret[t].key) =
                        [val |-> ret[t].value, exists |-> TRUE, missing |-> FALSE])'
                 /\ (Lookup(ret[t].key) =
                        [val |-> ret[t].value, found |-> TRUE])']_vars

\* a get returned, for a key stored as a missing record, exists = true and
\* markedAsMissing = true
C13_Witness ==
    \E t \in Clients :
        /\ ret[t].op = "Get"
        /\ ret[t].exists /\ ret[t].missing
        /\ ret[t].val = ZeroValue
        /\ GetWithState(ret[t].key).missing


(***************************************************************************)
(* Delete, in SpecAlias.                                                   *)
(***************************************************************************)
\* the aliases that shard sh binds to key k
AliasesOf(sh, k) ==
    {a \in DOMAIN sh.entryKeysByAlias : sh.entryKeysByAlias[a] = k}

\* the last call of client t was a Delete, and no call has come after it
Deleted(t) == pc[t] = "idle" /\ ret[t].op = "Delete"

\* C14: after Delete(k) has returned, and until k is Set again, Get(k) and
\* Get(a) of every alias a that was bound to k report not found and the
\* shard holds no alias binding for k; the Delete leaves every other entry
\* of the shard as it was.
C14_DeleteRemoves ==
    /\ [](\A t \in Clients :
             Deleted(t) =>
                 LET sh == shards[ret[t].shardIndex]
                 IN  /\ ret[t].key \notin DOMAIN sh.entries
                     /\ ~Lookup(ret[t].key).found
                     /\ AliasesOf(sh, ret[t].key) = {}
                     /\ ret[t].key \notin DOMAIN sh.aliasesByEntryKey)
    /\ [][\A t \in Clients :
             (pc[t] = "delShard" /\ pc'[t] = "idle") =>
                 LET s == call[t].shardIndex
                 IN  /\ \A a \in AliasesOf(shards[s], call[t].key) :
                            (~Lookup(a).found)'
                     /\ \A k \in (DOMAIN shards[s].entries) \ {call[t].key} :
                            /\ k \in DOMAIN shards'[s].entries
                            /\ shards'[s].entries[k] = shards[s].entries[k]]_vars


(***************************************************************************)
(* SpecBackoff: two goroutines Get and Set one key of a cache that         *)
(* refreshes in the background.  The key was first Set one tick before the *)
(* clock of the model starts, so that its entry can be signalled twice     *)
(* before the clock stops.                                                 *)
(***************************************************************************)
BackoffClients == {"c1", "c2"}

InitBackoff ==
    /\ clock = 0
    /\ shards = [s \in ShardIds |->
                    IF s = Hash(RefreshKey)
                    THEN shardSet(newShard, RefreshKey, 1, FALSE, <<>>, 0 - 1, 50,
                                  TRUE, 0).shard
                    ELSE newShard]
    /\ shardIndexByAlias = EmptyMap
    /\ nextShard = 0
    /\ pc = [t \in Clients |-> "idle"]
    /\ call = [t \in Clients |-> NoCall]
    /\ item = [t \in Clients |-> NoItem]
    /\ ret = [t \in Clients |-> NoRet]
    /\ written = EmptyMap
    /\ fault = "none"
    /\ ops = 0
    /\ evictionPercentage = 50
    /\ refreshInBackground = TRUE

NextBackoff ==
    \/ \E t \in BackoffClients : CallGet(t, RefreshKey)
    \/ \E t \in BackoffClients : ShardGetStep(t)
    \/ \E t \in BackoffClients : GetRecheck(t)
    \/ CallSet("c1", RefreshKey, 2, <<>>)
    \/ ShardSetStep("c1")
    \/ Tick

SpecBackoff == InitBackoff /\ [][NextBackoff]_vars

\* a step of the exclusive-lock part of shard.get that signals a refresh
SignalsRefresh(t) == pc[t] = "getUpgrade" /\ ret'[t].refresh

\* a shard.set step that writes its entry
SetWrites(t) == pc[t] = "setShard" /\ pc'[t] = "idle" /\ ret'[t].wrote

\* C15: a get that signals a refresh sets the refreshAt of its entry to now +
\* retryBaseDelay * 2^r, r being the entry's numOfRefreshRetries before, and
\* adds one to numOfRefreshRetries; a set of the key stores an entry with
\* numOfRefreshRetries 0 and a refreshAt between now + minRefreshTime and
\* now + maxRefreshTime.
C15_RefreshBackoff ==
    [][\A t \in Clients :
          /\ SignalsRefresh(t) =>
                 LET e == ItemObj(t)
                     at == clock + RetryBaseDelay * Pow2(e.numOfRefreshRetries)
                 IN  /\ ret'[t].newRefreshAt = at
                     /\ item[t].live =>
                            shards'[item[t].shard].entries[item[t].key] =
                                [e EXCEPT !.refreshAt = at,
                                          !.numOfRefreshRetries =
                                              e.numOfRefreshRetries + 1]
          /\ (SetWrites(t) /\ refreshInBackground) =>
                 LET e == shards'[call[t].shardIndex].entries[call[t].key]
                 IN  /\ e.numOfRefreshRetries = 0
                     /\ e.refreshAt >= clock + MinRefreshTime
                     /\ e.refreshAt <= clock + MaxRefreshTime]_vars

\* a get signalled the second refresh of an entry, putting it off by twice
\* retryBaseDelay
C15_Witness ==
    \E t \in Clients :
        /\ ret[t].op = "Get" /\ ret[t].refresh
        /\ ret[t].newRefreshAt = ret[t].signalAt + 2 * RetryBaseDelay
        /\ ret[t].key \in DOMAIN shards[ret[t].shardIndex].entries
        /\ shards[ret[t].shardIndex].entries[ret[t].key].numOfRefreshRetries = 2

\* a Set replaced an entry that had been signalled by one that has not
C15_WitnessReset ==
    \E t, u \in Clients :
        /\ ret[u].op = "Get" /\ ret[u].refresh
        /\ ret[t].op = "Set" /\ ret[t].wrote /\ ret[t].readAt >= ret[u].signalAt
        /\ shards[ret[t].shardIndex].entries[ret[t].key].numOfRefreshRetries = 0


\* the entries stored in the shards
StoredEntries == UNION {Range(shards[s].entries) : s \in ShardIds}

\* C16: with refresh-ahead enabled and maxRefreshTime <= ttl, every entry
\* stored in a shard has refreshAt <= expiresAt in every reachable state.
C16_RefreshBeforeExpiry ==
    (refreshInBackground /\ MaxRefreshTime <= Ttl) =>
        \A e \in StoredEntries : e.refreshAt <= e.expiresAt

\* C16 as amended: with refresh-ahead enabled and maxRefreshTime <= ttl,
\* every stored entry for which no get has signalled a refresh since it was
\* set (numOfRefreshRetries = 0) has refreshAt <= expiresAt.
C16_RefreshBeforeExpiryUntilSignalled ==
    (refreshInBackground /\ MaxRefreshTime <= Ttl) =>
        \A e \in StoredEntries :
            e.numOfRefreshRetries = 0 => e.refreshAt <= e.expiresAt

\* a Set has stored an entry anew after a get had signalled a refresh of the
\* key, and no get has signalled a refresh of the new entry
C16_Witness ==
    \E t, u \in Clients :
        /\ ret[u].op = "Get" /\ ret[u].refresh
        /\ ret[t].op = "Set" /\ ret[t].wrote /\ ret[t].readAt > ret[u].signalAt
        /\ ret[t].key \in DOMAIN shards[ret[t].shardIndex].entries
        /\ LET e == shards[ret[t].shardIndex].entries[ret[t].key]
           IN  e.numOfRefreshRetries = 0 /\ e.refreshAt <= e.expiresAt


(***************************************************************************)
(* SpecReinsert: one goroutine Sets a key with an alias and again with no  *)
(* alias, Sets a second key of the same shard and Deletes, while the       *)
(* clock and the sweep run.                                                *)
(***************************************************************************)
ReinsertSets == {<<"k1", <<"a1">>, 1>>, <<"k1", <<>>, 2>>, <<"k2", <<>>, 1>>}

InitReinsert ==
    /\ InitCache
    /\ evictionPercentage = 50
    /\ refreshInBackground = FALSE

NextReinsert ==
    \/ \E a \in ReinsertSets : CallSet("c1", a[1], a[3], a[2])
    \/ GuardLoad("c1")
    \/ GuardRead("c1")
    \/ GuardStore("c1")
    \/ ShardSetStep("c1")
    \/ CallDelete("c1", "k1")
    \/ ShardDeleteStep("c1")
    \/ Tick
    \/ SweepTick

SpecReinsert == InitReinsert /\ [][NextReinsert]_vars

\* entryKeysByAlias of shard sh maps alias a to key k
AliasToKey(sh, a, k) ==
    a \in DOMAIN sh.entryKeysByAlias /\ sh.entryKeysByAlias[a] = k

\* a is in the alias list that aliasesByEntryKey of shard sh keeps for key k
KeyToAlias(sh, k, a) ==
    k \in DOMAIN sh.aliasesByEntryKey /\ a \in Range(sh.aliasesByEntryKey[k])

\* C17: within a shard, alias a maps to key k in the alias-to-key map if and
\* only if a is in the alias list of k in the key-to-aliases map, in every
\* reachable state.
C17_AliasMapsInverse ==
    \A s \in ShardIds : \A a \in Str : \A k \in Str :
        AliasToKey(shards[s], a, k) <=> KeyToAlias(shards[s], k, a)


\* a step of performContinuousEvictions: evictExpired on shard nextShard
SweepStep == nextShard' # nextShard

\* C18: evictExpired removes from the shard exactly the entries whose
\* expiresAt is strictly before the current time, however full the shard is,
\* and leaves every other entry with its value, timestamps and alias
\* bindings, and every other shard, unchanged.
C18_EvictExpiredExact ==
    [][SweepStep =>
          LET sh == shards[nextShard]
              sh2 == shards'[nextShard]
          IN  /\ DOMAIN sh2.entries =
                     {k \in DOMAIN sh.entries : ~(sh.entries[k].expiresAt < clock)}
              /\ \A k \in DOMAIN sh2.entries :
                     /\ sh2.entries[k] = sh.entries[k]
                     /\ AliasesOf(sh2, k) = AliasesOf(sh, k)
                     /\ MapLoadSlice(sh2.aliasesByEntryKey, k) =
                            MapLoadSlice(sh.aliasesByEntryKey, k)
              /\ \A o \in ShardIds \ {nextShard} : shards'[o] = shards[o]]_vars

\* the sweep took an expired entry out of a full shard and left the other
\* entry, which is not expired and has an alias
C18_Witness ==
    \E s \in ShardIds : \E k, k2 \in Str :
        /\ k \in DOMAIN shards[s].aliasesByEntryKey
        /\ k \notin DOMAIN shards[s].entries
        /\ k2 \in DOMAIN shards[s].entries
        /\ ~Expired(shards[s].entries[k2], clock)
        /\ AliasesOf(shards[s], k2) # {}
        /\ Cardinality(DOMAIN shards[s].aliasesByEntryKey) = ShardSize


\* goroutine t is at the read of c.shards[shardIndex].entryKeysByAlias in
\* set_aliasGuard, which takes no lock of shard s
ReadsUnlocked(t, s) == pc[t] = "guardRead" /\ call[t].shardIndex = s

\* goroutine u is at shard.set of shard s, which writes the maps of s under
\* the exclusive lock
Mutates(u, s) == pc[u] = "setShard" /\ call[u].shardIndex = s

\* C19: every read or write of a shard's maps is made under that shard's
\* lock: in no reachable state does one goroutine read a map of a shard,
\* with nothing to hold it back, while another is at a write of that shard's
\* maps, and no run ends in the fault of a concurrent map read and write.
C19_LockDiscipline ==
    /\ \A s \in ShardIds : \A t \in Clients : \A u \in Clients \ {t} :
           ~(ReadsUnlocked(t, s) /\ Mutates(u, s))
    /\ fault # "concurrent map read and map write"


\* an alias of the Set that goroutine t is in is bound, in some shard, to an
\* entry stored under another key
RealConflict(t) ==
    \E a \in Range(call[t].aliases) : \E s \in ShardIds :
        /\ a \in DOMAIN shards[s].entryKeysByAlias
        /\ shards[s].entryKeysByAlias[a] # call[t].key
        /\ shards[s].entryKeysByAlias[a] \in DOMAIN shards[s].entries

\* C20: Client.Set(k, v) with aliases A raises a fatal fault only if some
\* alias in A is bound to an entry stored under a key other than k.
C20_FaultOnlyOnConflict ==
    \A t \in Clients :
        (pc[t] = "panicked" /\ call[t].op = "Set") => RealConflict(t)


\* a step in which the get of goroutine t returns from the exclusive-lock
\* part of shard.get
ReturnsFromUpgrade(t) == pc[t] = "getUpgrade" /\ pc'[t] = "idle"

\* the entry that the get of goroutine t found under the shared lock is
\* still the one stored in the shard
StillStored(t) == item[t].held /\ item[t].live

\* C21: a get that returns from the exclusive lock acts on the entry stored
\* at that time: if the entry it found under the shared lock was replaced or
\* removed in between, it signals no refresh and reports no value as existing
\* but that of the entry now stored under the key.
C21_GetActsOnStoredEntry ==
    [][\A t \in Clients :
          (ReturnsFromUpgrade(t) /\ ~StillStored(t)) =>
              /\ ~ret'[t].refresh
              /\ ret'[t].exists =>
                     LET r == unsafeGetByKeyOrAlias(shards[item[t].shard],
                                                    call[t].key)
                     IN  /\ r.ok
                         /\ ret'[t].val =
                                shards[item[t].shard].entries[r.key].value]_vars

====
